---- MODULE Spec2Model ----
(***************************************************************************)
(* A model of gimme/helpers.py: the login_required route guard, the        *)
(* project_from_field resolver and add_conditional_binding, which reads a  *)
(* project's IAM policy, appends one conditional binding and writes the    *)
(* policy back.                                                            *)
(*                                                                         *)
(* Text is a sequence of tokens. A token is either one character ("=",     *)
(* "&", "+", " ", ...), one percent-escape ("%2F"), or a run of characters *)
(* that quote_plus and unquote leave alone ("project", "a", "p"). UrlHead  *)
(* is the scheme, host and path of a console URL, up to the "?".           *)
(***************************************************************************)
EXTENDS Integers, Sequences, FiniteSets, TLC

VARIABLES
  session,      \* the session store: key -> value, Absent when the key is not held
  remote,       \* the resource manager: project id -> policy document
  pc,           \* per request handler: "idle", "run" (the wrapped route runs), "fetched"
  call,         \* per request handler: what its last decorated_route call did
  grant,        \* per request handler: what its last add_conditional_binding did
  started,      \* number of requests started so far
  writers,      \* number of decorated_route calls that wrote the session store
  field,        \* the form value handed to project_from_field (resolver runs)
  resolved      \* what project_from_field returned for it

vars == <<session, remote, pc, call, grant, started, writers, field, resolved>>

(***************************************************************************)
(* Bounds.                                                                 *)
(***************************************************************************)
MaxRequests == 3
MaxQueryLen == 7
MaxEscLen == 3
MaxRawLen == 2

(***************************************************************************)
(* Text helpers.                                                           *)
(***************************************************************************)
RECURSIVE IndexFrom(_, _, _)
\* the first position >= i of s holding a token of set cs, 0 when there is none
IndexFrom(s, cs, i) ==
  IF i > Len(s) THEN 0
  ELSE IF s[i] \in cs THEN i
  ELSE IndexFrom(s, cs, i + 1)

RECURSIVE Split(_, _)
\* str.split over the separators cs: the pieces between them, empty ones kept
Split(s, cs) ==
  LET i == IndexFrom(s, cs, 1)
  IN  IF i = 0 THEN <<s>>
      ELSE <<SubSeq(s, 1, i - 1)>> \o Split(SubSeq(s, i + 1, Len(s)), cs)

UrlHead == "https://console.cloud.google.com/home"
UrlHeadQuoted == "https%3A%2F%2Fconsole.cloud.google.com%2Fhome"

\* validators.url: a scheme and host, then any run of non-blank characters
url(value) ==
  /\ Len(value) >= 1
  /\ value[1] = UrlHead
  /\ \A i \in 2..Len(value) : value[i] # " "

\* urlparse.urlparse(value).query: the fragment is cut at the first "#", then
\* the query is what follows the first "?"
UrlQuery(value) ==
  LET h == IndexFrom(value, {"#"}, 1)
      u == IF h = 0 THEN value ELSE SubSeq(value, 1, h - 1)
      q == IndexFrom(u, {"?"}, 1)
  IN  IF q = 0 THEN <<>> ELSE SubSeq(u, q + 1, Len(u))

\* one token of urllib.quote_plus: letters, digits and "_.-" stay, a blank
\* becomes "+", anything else its percent-escape
QuoteToken(c) ==
  CASE c = " " -> "+"
    [] c = "=" -> "%3D"
    [] c = "&" -> "%26"
    [] c = "+" -> "%2B"
    [] c = "/" -> "%2F"
    [] c = "?" -> "%3F"
    [] c = "#" -> "%23"
    [] c = ";" -> "%3B"
    [] c = "%2F" -> "%252F"
    [] c = UrlHead -> UrlHeadQuoted
    [] OTHER -> c

quote_plus(s) == [i \in 1..Len(s) |-> QuoteToken(s[i])]

\* one token of unquote(x.replace('+', ' '))
UnquoteToken(c) ==
  CASE c = "+" -> " "
    [] c = "%2F" -> "/"
    [] OTHER -> c

unquote_plus(s) == [i \in 1..Len(s) |-> UnquoteToken(s[i])]

RECURSIVE PairsOf(_)
\* the loop of urlparse.parse_qsl (keep_blank_values=0, strict_parsing=0) over
\* the pieces: a piece without "=" or with an empty value is skipped
PairsOf(pieces) ==
  IF pieces = <<>> THEN <<>>
  ELSE LET nv == Head(pieces)
           e == IndexFrom(nv, {"="}, 1)
           rest == PairsOf(Tail(pieces))
       IN  IF e = 0 \/ e = Len(nv) THEN rest
           ELSE << <<unquote_plus(SubSeq(nv, 1, e - 1)),
                     unquote_plus(SubSeq(nv, e + 1, Len(nv)))>> >> \o rest

\* urlparse.parse_qsl: split at "&" and ";", then name=value pairs in order
parse_qsl(qs) == PairsOf(Split(qs, {"&", ";"}))

RECURSIVE DictGet(_, _, _)
\* dict(pairs)[key]: a later pair with the same name replaces an earlier one
DictGet(pairs, key, i) ==
  IF i = 0 THEN <<"missing">>
  ELSE IF pairs[i][1] = key THEN <<"found", pairs[i][2]>>
  ELSE DictGet(pairs, key, i - 1)

RECURSIVE DictGetFirst(_, _, _)
\* the same lookup with the first pair of a name winning
DictGetFirst(pairs, key, i) ==
  IF i > Len(pairs) THEN <<"missing">>
  ELSE IF pairs[i][1] = key THEN <<"found", pairs[i][2]>>
  ELSE DictGetFirst(pairs, key, i + 1)

\* a mutant: the first project parameter is used, not the last
project_from_field_first(value) ==
  IF url(value)
  THEN LET qs == parse_qsl(UrlQuery(value))
           got == DictGetFirst(qs, <<"project">>, 1)
       IN  IF got[1] = "found" THEN quote_plus(got[2]) ELSE <<>>
  ELSE quote_plus(value)

project_from_field(value) ==
  IF url(value)
  THEN LET qs == parse_qsl(UrlQuery(value))
           got == DictGet(qs, <<"project">>, Len(qs))
       IN  IF got[1] = "found" THEN quote_plus(got[2]) ELSE <<>>
  ELSE quote_plus(value)

(***************************************************************************)
(* login_required.                                                         *)
(***************************************************************************)
Absent == "<absent>"
NoSession == [domain |-> Absent, account |-> Absent]

\* current_app.config['ALLOWED_GSUITE_DOMAINS']
ALLOWED_GSUITE_DOMAINS == {"acme.com", "other.com"}

MsgProfile == <<"Could not get your profile information from Google", "error">>
MsgNoDomain ==
  <<"The response from the Google Plus API is missing a required field: domain",
    "error">>
MsgNoEmails ==
  <<"The response from the Google Plus API is missing a required field: emails",
    "error">>
MsgNoAccount ==
  <<"The response from the Google Plus API did not include an email of type: account",
    "error">>
MsgWhitelist ==
  <<"The account you are logged in with does not match the configured whitelist",
    "error">>

\* Responses of GET /plus/v1/people/me. A JSON null and a key that is not there
\* are one case for the code (body.get(key, None) is None): the key is left out.
Profiles ==
  { [status_code |-> 500, body |-> [error |-> "backend"]],
    [status_code |-> 200,
     body |-> [domain |-> "acme.com",
               emails |-> <<[type |-> "account", value |-> "a@acme.com"]>>]],
    [status_code |-> 200,
     body |-> [domain |-> "Acme.com",
               emails |-> <<[type |-> "home", value |-> "h@example.org"],
                            [type |-> "account", value |-> "b@Acme.com"],
                            [type |-> "account", value |-> "c@Acme.com"]>>]],
    [status_code |-> 200,
     body |-> [domain |-> "evil.com",
               emails |-> <<[type |-> "account", value |-> "e@evil.com"],
                            [value |-> "untyped@evil.com"]>>]],
    [status_code |-> 200, body |-> [domain |-> "acme.com"]],
    [status_code |-> 200, body |-> [domain |-> "evil.com"]],
    [status_code |-> 200,
     body |-> [emails |-> <<[type |-> "account", value |-> "a@acme.com"]>>]],
    [status_code |-> 200, body |-> [kind |-> "plus#person"]],
    [status_code |-> 200, body |-> [domain |-> "other.com", emails |-> <<>>]],
    [status_code |-> 200,
     body |-> [domain |-> "acme.com",
               emails |-> <<[type |-> "home", value |-> "h@example.org"]>>]],
    [status_code |-> 200,
     body |-> [domain |-> "acme.com",
               emails |-> <<[value |-> "untyped@acme.com"]>>]],
    [status_code |-> 200,
     body |-> [domain |-> "other.com", emails |-> <<[type |-> "account"]>>]] }

\* a mutant: the comparison folds case
check_valid_domain_nocase(domain, valid_domains) ==
  (IF domain = "Acme.com" THEN "acme.com" ELSE domain) \in valid_domains

check_valid_domain(domain, valid_domains) == domain \in valid_domains

\* a mutant: the cache is never trusted
NeedsProfile_always(s) == TRUE

\* a mutant: only the domain key is looked for
NeedsProfile_domain_only(s) == s.domain = Absent

\* not all(key in session for key in ['domain', 'account'])
NeedsProfile(s) == ~(\A key \in {"domain", "account"} : s[key] # Absent)

RECURSIVE FindAccount(_, _)
\* the for/else over body['emails']: the first entry of type account; an entry
\* without 'type', or an account entry without 'value', raises KeyError
FindAccount(emails, i) ==
  IF i > Len(emails) THEN [kind |-> "none"]
  ELSE IF "type" \notin DOMAIN emails[i] THEN [kind |-> "KeyError"]
  ELSE IF emails[i].type = "account"
       THEN IF "value" \notin DOMAIN emails[i] THEN [kind |-> "KeyError"]
            ELSE [kind |-> "found", value |-> emails[i].value]
  ELSE FindAccount(emails, i + 1)

Outcome(decision, flashed, fetched, wrote, s) ==
  [decision |-> decision, flashed |-> flashed, fetched |-> fetched,
   wrote |-> wrote, session |-> s]

\* lines 96-103: the allowlist check on session['domain']
DomainCheck(fetched, wrote, s) ==
  IF check_valid_domain(s.domain, ALLOWED_GSUITE_DOMAINS)
  THEN Outcome("ALLOW", <<>>, fetched, wrote, s)
  ELSE Outcome("DENY", <<MsgWhitelist>>, fetched, wrote, s)

\* a mutant: a missing domain is flashed but the call goes on to the emails
ProfileFetch_nodomain_continues(resp, s) ==
  IF resp.status_code # 200 THEN Outcome("DENY", <<MsgProfile>>, TRUE, {}, s)
  ELSE LET has == "domain" \in DOMAIN resp.body
           s1 == IF has THEN [s EXCEPT !.domain = resp.body.domain] ELSE s
           w1 == IF has THEN {"domain"} ELSE {}
       IN  IF "emails" \notin DOMAIN resp.body
           THEN Outcome("DENY", <<MsgNoEmails>>, TRUE, w1, s1)
           ELSE LET acc == FindAccount(resp.body.emails, 1)
                IN  CASE acc.kind = "found" ->
                           IF has
                           THEN DomainCheck(TRUE, w1 \cup {"account"},
                                            [s1 EXCEPT !.account = acc.value])
                           ELSE Outcome("DENY", <<MsgNoDomain>>, TRUE, {"account"},
                                        [s1 EXCEPT !.account = acc.value])
                      [] acc.kind = "none" ->
                           Outcome("DENY", <<MsgNoAccount>>, TRUE, w1, s1)
                      [] OTHER ->
                           Outcome("FAULT", <<>>, TRUE, w1, s1)

\* lines 70-94: the profile fetch and what it stores
ProfileFetch(resp, s) ==
  IF resp.status_code # 200 THEN Outcome("DENY", <<MsgProfile>>, TRUE, {}, s)
  ELSE IF "domain" \notin DOMAIN resp.body
       THEN Outcome("DENY", <<MsgNoDomain>>, TRUE, {}, s)
  ELSE LET s1 == [s EXCEPT !.domain = resp.body.domain]
       IN  IF "emails" \notin DOMAIN resp.body
           THEN Outcome("DENY", <<MsgNoEmails>>, TRUE, {"domain"}, s1)
           ELSE LET acc == FindAccount(resp.body.emails, 1)
                IN  CASE acc.kind = "found" ->
                           DomainCheck(TRUE, {"domain", "account"},
                                       [s1 EXCEPT !.account = acc.value])
                      [] acc.kind = "none" ->
                           Outcome("DENY", <<MsgNoAccount>>, TRUE, {"domain"}, s1)
                      [] OTHER ->
                           Outcome("FAULT", <<>>, TRUE, {"domain"}, s1)

\* a mutant: a cached identity is checked before the provider is asked
decorated_route_cache_first(authorized, resp, s) ==
  IF ~NeedsProfile(s) THEN DomainCheck(FALSE, {}, s)
  ELSE IF ~authorized THEN Outcome("REDIRECT_TO_LOGIN", <<>>, FALSE, {}, s)
  ELSE ProfileFetch(resp, s)

\* decorated_route up to its decision; on ALLOW the wrapped route runs next
decorated_route(authorized, resp, s) ==
  IF ~authorized THEN Outcome("REDIRECT_TO_LOGIN", <<>>, FALSE, {}, s)
  ELSE IF NeedsProfile(s) THEN ProfileFetch(resp, s)
  ELSE DomainCheck(FALSE, {}, s)

(***************************************************************************)
(* add_conditional_binding.                                                *)
(***************************************************************************)
Workers == {"w1", "w2"}

\* Time is counted in minutes since 0001-01-01T00:00, the least datetime; the
\* seconds and microseconds of a clock value pass through the sum unchanged.
\* ClockBase is 2018-11-01T00:00 UTC.
ClockBase == 1061277120
\* the values datetime.datetime.now(utc) may take
Clock == {ClockBase, ClockBase + 1}

\* the form of a grant request
Forms ==
  { [project |-> <<UrlHead, "?", "project", "=", "p">>, period |-> 30,
     target |-> "alice", domain |-> "acme.com", access |-> "roles/viewer"],
    [project |-> <<"p">>, period |-> 0,
     target |-> "bob", domain |-> "other.com", access |-> "roles/editor"],
    [project |-> <<"p">>, period |-> -(ClockBase + 1),
     target |-> "bob", domain |-> "acme.com", access |-> "roles/viewer"],
    [project |-> <<"q", " ">>, period |-> -1,
     target |-> "bob", domain |-> "acme.com", access |-> "roles/viewer"],
    [project |-> <<"p", "/">>, period |-> 30,
     target |-> "alice", domain |-> "other.com", access |-> "roles/editor"],
    [project |-> <<UrlHead, "?", "a", "=", "p">>, period |-> 30,
     target |-> "alice", domain |-> "acme.com", access |-> "roles/viewer"],
    [project |-> <<UrlHead>>, period |-> 30,
     target |-> "bob", domain |-> "acme.com", access |-> "roles/editor"],
    [project |-> <<>>, period |-> 30,
     target |-> "alice", domain |-> "acme.com", access |-> "roles/viewer"] }
NoForm == [project |-> <<>>, period |-> 0, target |-> "", domain |-> "", access |-> ""]

\* the projects the resource manager knows, and the policy each starts with
Projects == {<<"p">>, <<"q", "+">>}
OwnerBinding == [members |-> <<"user:root@acme.com">>, role |-> "roles/owner"]
InitialPolicy == [bindings |-> <<OwnerBinding>>]

NoBody == [nobody |-> TRUE]
\* what getIamPolicy may answer for a project, given the policies stored
GetResponses(project, stored) ==
  IF project \in DOMAIN stored
  THEN { [status_code |-> 200, body |-> stored[project]],
         [status_code |-> 200, body |-> [version |-> 1]],
         [status_code |-> 403, body |-> [error |-> [message |-> "forbidden"]]] }
  ELSE { [status_code |-> 404, body |-> [error |-> [message |-> "not found"]]] }
\* what setIamPolicy may answer
SetResponses ==
  { [status_code |-> 200, body |-> [version |-> 1]],
    [status_code |-> 400, body |-> [error |-> [message |-> "bad role"]]],
    [status_code |-> 502, body |-> [html |-> "Bad Gateway"]] }

MsgNoProject == <<"Could not find project ID in provided URL", "error">>
MsgFetchFailed(project) ==
  <<"Could not fetch IAM policy for: ", project,
    ". This likely means the project ID was invalid or you do not have access to that project.",
    "error">>
MsgApplyFailed(message) == <<"Could not apply new policy: ", message, "error">>
MsgSuccess == <<"Great success, they'll have access in a minute!", "success">>

\* datetime + timedelta raises OverflowError when the sum leaves the range of
\* datetime; of its two ends only the lower one, year 1, is near the periods
\* modelled
Overflows(now, period) == now + period < 0

\* (datetime.now(utc) + timedelta(minutes=period)).isoformat(): the day, the
\* hour and the minute of the sum, and the offset of utc
isoformat(now, period) ==
  LET t == now + period
  IN  <<t \div 1440, "T", (t % 1440) \div 60, ":", t % 60, "+00:00">>

\* lines 146-151: the binding appended to the policy
NewBinding(form, account, expiry) ==
  [condition |-> [expression |-> <<"request.time < timestamp(\"", expiry, "\")">>,
                  title |-> <<"granted by ", account>>],
   members |-> << <<"user:", form.target, "@", form.domain>> >>,
   role |-> form.access]

\* a mutant: the new binding is put in front of the fetched ones
NewPolicy_prepend(cur, binding) ==
  [policy |-> [cur EXCEPT !.bindings = <<binding>> \o @]]

\* a mutant: the new policy holds the new binding alone
NewPolicy_only(cur, binding) == [policy |-> [cur EXCEPT !.bindings = <<binding>>]]

\* lines 144-145: the fetched document, its bindings list one longer
NewPolicy(cur, binding) ==
  [policy |-> [cur EXCEPT !.bindings = Append(@, binding)]]

\* a mutant: the empty project id is not noticed
ProjectMissing_never(project) == FALSE

\* line 130
ProjectMissing(project) == project = <<>>

\* a mutant: the status of getIamPolicy is not looked at
FetchFailed_never(resp) == FALSE

\* line 136
FetchFailed(resp) == resp.status_code # 200

NoGrant ==
  [ran |-> FALSE, form |-> NoForm, project |-> <<>>, calls |-> <<>>,
   getStatus |-> 0, cur |-> NoBody, clock |-> <<>>, submitted |-> <<>>,
   setStatus |-> 0, flashed |-> <<>>, outcome |-> "none"]
NoCall ==
  [authorized |-> FALSE, fetched |-> FALSE, decision |-> "none", flashed |-> <<>>,
   wrote |-> {}]

(***************************************************************************)
(* The requests of one session, served by concurrent handlers.            *)
(***************************************************************************)
Init ==
  /\ session = NoSession
  /\ remote = [p \in Projects |-> InitialPolicy]
  /\ pc = [w \in Workers |-> "idle"]
  /\ call = [w \in Workers |-> NoCall]
  /\ grant = [w \in Workers |-> NoGrant]
  /\ started = 0
  /\ writers = 0
  /\ field = <<>>
  /\ resolved = <<"unused">>

\* decorated_route runs to its decision, the provider reporting `authorized`
\* and answering a profile fetch, if one is made, with `resp`.
EnforceWith(w, authorized, resp) ==
  /\ pc[w] = "idle"
  /\ started < MaxRequests
  /\ started' = started + 1
  /\ grant' = [grant EXCEPT ![w] = NoGrant]
  /\ UNCHANGED <<remote, field, resolved>>
  /\ LET r == decorated_route(authorized, resp, session)
     IN  /\ session' = r.session
         /\ call' = [call EXCEPT ![w] =
                       [authorized |-> authorized, fetched |-> r.fetched,
                        decision |-> r.decision, flashed |-> r.flashed,
                        wrote |-> r.wrote]]
         /\ pc' = [pc EXCEPT ![w] = IF r.decision = "ALLOW" THEN "run" ELSE "idle"]
         /\ writers' = IF r.wrote = {} THEN writers ELSE writers + 1

\* A request arrives.
Enforce(w) ==
  \E authorized \in BOOLEAN, resp \in Profiles : EnforceWith(w, authorized, resp)

\* Lines 129-140: the project is resolved and the policy fetched.
GrantFetch(w) ==
  /\ pc[w] = "run"
  /\ \E form \in Forms :
       LET project == project_from_field(form.project)
           g == [NoGrant EXCEPT !.ran = TRUE, !.form = form, !.project = project]
       IN  IF ProjectMissing(project)
           THEN /\ grant' = [grant EXCEPT ![w] =
                               [g EXCEPT !.flashed = <<MsgNoProject>>,
                                         !.outcome = "ERROR"]]
                /\ pc' = [pc EXCEPT ![w] = "idle"]
           ELSE \E cur_policy \in GetResponses(project, remote) :
                  LET h == [g EXCEPT !.calls = <<"getIamPolicy">>,
                                     !.getStatus = cur_policy.status_code]
                  IN  IF FetchFailed(cur_policy)
                      THEN /\ grant' = [grant EXCEPT ![w] =
                                          [h EXCEPT !.flashed = <<MsgFetchFailed(project)>>,
                                                    !.outcome = "ERROR"]]
                           /\ pc' = [pc EXCEPT ![w] = "idle"]
                      ELSE /\ grant' = [grant EXCEPT ![w] =
                                          [h EXCEPT !.cur = cur_policy.body]]
                           /\ pc' = [pc EXCEPT ![w] = "fetched"]
  /\ UNCHANGED <<session, remote, call, started, writers, field, resolved>>

\* Lines 142-159: the binding is built, appended and the policy written back.
GrantWrite(w) ==
  /\ pc[w] = "fetched"
  /\ pc' = [pc EXCEPT ![w] = "idle"]
  /\ \E now \in Clock :
       LET g == [grant[w] EXCEPT !.clock = <<now>>]
           expiry == isoformat(now, g.form.period)
       IN  IF \/ Overflows(now, g.form.period)
              \/ "bindings" \notin DOMAIN g.cur
              \/ session.account = Absent
           THEN \* OverflowError, KeyError: nothing is sent, nothing is flashed
                /\ grant' = [grant EXCEPT ![w] = [g EXCEPT !.outcome = "FAULT"]]
                /\ UNCHANGED remote
           ELSE \E result \in SetResponses :
                  LET new_policy == NewPolicy(g.cur, NewBinding(g.form, session.account, expiry))
                      h == [g EXCEPT !.calls = Append(@, "setIamPolicy"),
                                     !.submitted = <<new_policy>>,
                                     !.setStatus = result.status_code]
                  IN  IF result.status_code # 200
                      THEN /\ UNCHANGED remote
                           /\ grant' = [grant EXCEPT ![w] =
                                IF "error" \in DOMAIN result.body
                                THEN [h EXCEPT !.flashed =
                                                 <<MsgApplyFailed(result.body.error.message)>>,
                                               !.outcome = "ERROR"]
                                ELSE [h EXCEPT !.outcome = "FAULT"]]
                      ELSE /\ remote' = [remote EXCEPT ![g.project] = new_policy.policy]
                           /\ grant' = [grant EXCEPT ![w] =
                                [h EXCEPT !.flashed = <<MsgSuccess>>,
                                          !.outcome = "SUCCESS"]]
  /\ UNCHANGED <<session, call, started, writers, field, resolved>>

Next == \E w \in Workers : Enforce(w) \/ GrantFetch(w) \/ GrantWrite(w)

Spec == Init /\ [][Next]_vars

(***************************************************************************)
(* The same requests served one at a time: a request starts only when no   *)
(* other is being served, and nothing else writes the policies.            *)
(***************************************************************************)
EnforceAlone(w) == (\A v \in Workers : pc[v] = "idle") /\ Enforce(w)

NextSeq == \E w \in Workers : EnforceAlone(w) \/ GrantFetch(w) \/ GrantWrite(w)

SpecSeq == Init /\ [][NextSeq]_vars

(***************************************************************************)
(* The resolver on its own: a form value is drawn, project_from_field is   *)
(* applied to it once.                                                     *)
(***************************************************************************)
QueryTokens == {"project", "a", "b", "=", "&"}
EscTokens == {"project", "a", "=", "+", "%2F", ";", "#", "?"}
RawTokens == {"p", " ", "/", "=", "?", UrlHead}

\* the form values tried: URLs with a query string, and raw values
IsFieldValue(value) ==
  \/ \E k \in 0..MaxQueryLen : \E q \in [1..k -> QueryTokens] :
       value = <<UrlHead, "?">> \o q
  \/ \E k \in 0..MaxEscLen : \E q \in [1..k -> EscTokens] :
       value = <<UrlHead, "?">> \o q
  \/ \E k \in 0..MaxRawLen : \E q \in [1..k -> RawTokens] : value = q

Pending == <<"pending">>

Resolve ==
  /\ resolved = Pending
  /\ resolved' = <<"returned", project_from_field(field)>>
  /\ UNCHANGED <<session, remote, pc, call, grant, started, writers, field>>

InitProject ==
  /\ session = NoSession
  /\ remote = [p \in Projects |-> InitialPolicy]
  /\ pc = [w \in Workers |-> "idle"]
  /\ call = [w \in Workers |-> NoCall]
  /\ grant = [w \in Workers |-> NoGrant]
  /\ started = 0
  /\ writers = 0
  /\ IsFieldValue(field)
  /\ resolved = Pending

SpecProject == InitProject /\ [][Resolve]_vars

(***************************************************************************)
(* Properties.                                                             *)
(***************************************************************************)
Cached(s) == s.domain # Absent /\ s.account # Absent
Last(q) == q[Len(q)]
Elems(q) == {q[i] : i \in 1..Len(q)}

\* C1: the wrapped route runs in a call only if that call saw the provider
\* authorized and the domain held in the session is, by string equality, one of
\* the allowlist; a call on the memoized path whose cached domain is not in the
\* allowlist is denied with the whitelist message and runs nothing.
C1_AllowOnlyAllowlisted ==
  \A w \in Workers :
    /\ (call[w].decision = "ALLOW" \/ pc[w] # "idle" \/ grant[w].ran) =>
         /\ call[w].authorized
         /\ \E d \in ALLOWED_GSUITE_DOMAINS : d = session.domain
    /\ ( /\ call[w].authorized
         /\ call[w].decision # "none"
         /\ ~call[w].fetched
         /\ session.domain \notin ALLOWED_GSUITE_DOMAINS ) =>
         /\ call[w].decision = "DENY"
         /\ call[w].flashed = <<MsgWhitelist>>
         /\ pc[w] = "idle"
         /\ ~grant[w].ran

\* a memoized call denied for a cached domain that differs from an allowlist
\* entry by case only
C1_Witness ==
  \E w \in Workers :
    /\ call[w].authorized
    /\ ~call[w].fetched
    /\ call[w].decision = "DENY"
    /\ session.domain = "Acme.com"

\* C2: a successful setIamPolicy replaces the remote policy by the writer's own
\* snapshot plus its one binding, whatever was stored since the snapshot was
\* taken: two overlapping grants both succeed and one binding is lost.
C2_LastWriteWins ==
  [][\A w \in Workers :
       (pc[w] = "fetched" /\ grant'[w].outcome = "SUCCESS") =>
         LET b == remote'[grant[w].project].bindings
             n == Len(grant[w].cur.bindings)
         IN  /\ Len(b) = n + 1
             /\ SubSeq(b, 1, n) = grant[w].cur.bindings
             /\ b[n + 1].members =
                  << <<"user:", grant[w].form.target, "@", grant[w].form.domain>> >>]_vars

\* both handlers reported SUCCESS on one project and the policy holds the new
\* binding of one of them only
C2_Witness ==
  \E w \in Workers, v \in Workers :
    /\ w # v
    /\ pc[w] = "idle" /\ pc[v] = "idle"
    /\ grant[w].outcome = "SUCCESS" /\ grant[v].outcome = "SUCCESS"
    /\ grant[w].flashed = <<MsgSuccess>> /\ grant[v].flashed = <<MsgSuccess>>
    /\ grant[w].project = grant[v].project
    /\ Last(grant[w].submitted[1].policy.bindings)
         \notin Elems(remote[grant[w].project].bindings)
    /\ Last(grant[v].submitted[1].policy.bindings)
         \in Elems(remote[grant[v].project].bindings)

\* C3: no call ends in an unhandled fault: enforce ends in REDIRECT_TO_LOGIN,
\* DENY or ALLOW, a grant in ERROR or SUCCESS with a message flashed.
C3_NoUncaughtFault ==
  \A w \in Workers :
    /\ call[w].decision \in {"none", "REDIRECT_TO_LOGIN", "DENY", "ALLOW"}
    /\ grant[w].outcome \in {"none", "ERROR", "SUCCESS"}
    /\ grant[w].outcome \in {"ERROR", "SUCCESS"} => Len(grant[w].flashed) = 1

\* C4: at most one call writes the session store, and a key that holds a value
\* keeps it.
C4_PopulatedOnce ==
  /\ [](writers <= 1)
  /\ [][\A key \in {"domain", "account"} :
          session[key] # Absent => session'[key] = session[key]]_vars

\* C5: once the session holds both domain and account, no call fetches the
\* profile.
C5_NoRefetch ==
  [][\A w \in Workers :
       (Cached(session) /\ Enforce(w)) => ~call'[w].fetched]_vars

\* a call allowed from the cache, without a profile fetch
C5_Witness ==
  \E w \in Workers :
    /\ call[w].authorized
    /\ ~call[w].fetched
    /\ call[w].decision = "ALLOW"
    /\ Cached(session)

\* C6: setIamPolicy is called only after getIamPolicy of the same invocation
\* answered 200; any other answer ends the invocation in ERROR naming the
\* project, with nothing written.
C6_WriteOnlyAfterFetch ==
  \A w \in Workers :
    LET g == grant[w]
    IN  /\ (\E i \in 1..Len(g.calls) : g.calls[i] = "setIamPolicy") =>
             /\ g.calls = <<"getIamPolicy", "setIamPolicy">>
             /\ g.getStatus = 200
        /\ g.getStatus \notin {0, 200} =>
             /\ g.outcome = "ERROR"
             /\ g.flashed = <<MsgFetchFailed(g.project)>>
             /\ g.calls = <<"getIamPolicy">>
             /\ g.submitted = <<>>
             /\ pc[w] = "idle"

\* a fetch answered 403
C6_Witness ==
  \E w \in Workers :
    /\ grant[w].getStatus = 403
    /\ grant[w].outcome = "ERROR"
    /\ grant[w].project = <<"p">>

\* the decoded values X of the pieces project=X of a query string, in order
RECURSIVE ParamValues(_)
ParamValues(pieces) ==
  IF pieces = <<>> THEN <<>>
  ELSE LET nv == Head(pieces)
           e == IndexFrom(nv, {"="}, 1)
       IN  (IF e > 0 /\ unquote_plus(SubSeq(nv, 1, e - 1)) = <<"project">>
            THEN <<unquote_plus(SubSeq(nv, e + 1, Len(nv)))>>
            ELSE <<>>) \o ParamValues(Tail(pieces))
ProjectParams(value) == ParamValues(Split(UrlQuery(value), {"&", ";"}))

\* C7: a well-formed URL without a project parameter and an empty value resolve
\* to the empty string, and an empty project id ends the grant in ERROR with
\* the not-found message before any call to the resource manager.
C7_NoProjectNoCall ==
  \A w \in Workers :
    LET g == grant[w]
    IN  g.ran =>
          /\ ((url(g.form.project) /\ ProjectParams(g.form.project) = <<>>)
                \/ g.form.project = <<>>) =>
               /\ g.project = <<>>
               /\ g.outcome = "ERROR"
               /\ g.flashed = <<MsgNoProject>>
               /\ g.calls = <<>>
          /\ g.project = <<>> => g.calls = <<>> /\ g.flashed = <<MsgNoProject>>

\* a URL with a query string but no project parameter
C7_Witness ==
  \E w \in Workers :
    /\ grant[w].ran
    /\ url(grant[w].form.project)
    /\ UrlQuery(grant[w].form.project) # <<>>
    /\ grant[w].outcome = "ERROR"
    /\ grant[w].calls = <<>>

\* C8: a finished grant flashed exactly one message: the success message iff
\* the project resolved and both calls answered 200, else the error of the
\* first failing step.
C8_OneMessage ==
  \A w \in Workers :
    LET g == grant[w]
    IN  (g.ran /\ pc[w] = "idle") =>
          /\ Len(g.flashed) = 1
          /\ g.flashed = <<MsgSuccess>> <=>
               (g.project # <<>> /\ g.getStatus = 200 /\ g.setStatus = 200)
          /\ g.project = <<>> => g.flashed = <<MsgNoProject>>
          /\ (g.project # <<>> /\ g.getStatus # 200) =>
               g.flashed = <<MsgFetchFailed(g.project)>>
          /\ (g.getStatus = 200 /\ g.setStatus = 400) =>
               g.flashed = <<MsgApplyFailed("bad role")>>

\* C9: the policy sent to setIamPolicy holds the fetched bindings, in order,
\* then one new binding with the requested role, the target member and the
\* acting account in its title; the rest of the document is the fetched one.
C9_AppendOnly ==
  \A w \in Workers :
    LET g == grant[w]
    IN  g.submitted # <<>> =>
          LET sent == g.submitted[1].policy
              n == Len(g.cur.bindings)
          IN  /\ Len(sent.bindings) = n + 1
              /\ SubSeq(sent.bindings, 1, n) = g.cur.bindings
              /\ sent.bindings[n + 1].role = g.form.access
              /\ sent.bindings[n + 1].members =
                   << <<"user:", g.form.target, "@", g.form.domain>> >>
              /\ sent.bindings[n + 1].condition.title =
                   <<"granted by ", session.account>>
              /\ [sent EXCEPT !.bindings = g.cur.bindings] = g.cur

\* a policy that already held an earlier grant is extended
C9_Witness ==
  \E w \in Workers :
    /\ grant[w].submitted # <<>>
    /\ Len(grant[w].cur.bindings) = 2
    /\ grant[w].cur.bindings[1] = OwnerBinding
    /\ grant[w].outcome = "SUCCESS"

NonEmpty(x) == x # <<>>

\* C10 as stated: for a URL holding a parameter project=X the result is
\* urlEncode(X), for every such parameter.
C10_EveryParameter ==
  (resolved[1] = "returned" /\ url(field)) =>
    \A i \in 1..Len(ProjectParams(field)) :
      resolved[2] = quote_plus(ProjectParams(field)[i])

\* C10, amended: for a URL holding a parameter project=X the result is
\* urlEncode(X) for the last project parameter whose value is not empty, and
\* the empty string when every project parameter is empty.
C10_LastNonEmptyParameter ==
  (resolved[1] = "returned" /\ url(field) /\ ProjectParams(field) # <<>>) =>
    LET kept == SelectSeq(ProjectParams(field), NonEmpty)
    IN  IF kept = <<>> THEN resolved[2] = <<>>
        ELSE resolved[2] = quote_plus(Last(kept))

\* a URL with two project parameters of different values
C10_Witness ==
  /\ resolved[1] = "returned"
  /\ url(field)
  /\ Len(ProjectParams(field)) = 2
  /\ ProjectParams(field)[1] = <<"a">>
  /\ ProjectParams(field)[2] = <<"b">>
  /\ resolved[2] = <<"b">>

\* C11: the session store is written only by a call that resolved both a
\* domain and an account email; a call denied because the profile fetch failed
\* or the profile was incomplete leaves the store as it was.
C11_DeniedLeavesSession ==
  [][\A w \in Workers :
       Enforce(w) =>
         /\ session' # session => Cached(session')
         /\ ( /\ call'[w].decision = "DENY"
              /\ call'[w].flashed \in {<<MsgProfile>>, <<MsgNoDomain>>,
                                       <<MsgNoEmails>>, <<MsgNoAccount>>} ) =>
              session' = session]_vars

\* C12: a call the provider reports not authorized is redirected to the login
\* and does nothing else: no profile fetch, no message, the session store
\* unchanged, the wrapped route not run, also when an allowlisted identity is
\* cached.
C12_RedirectOnly ==
  [][\A w \in Workers :
       (~call'[w].authorized /\ Enforce(w)) =>
         /\ call'[w].decision = "REDIRECT_TO_LOGIN"
         /\ ~call'[w].fetched
         /\ call'[w].flashed = <<>>
         /\ call'[w].wrote = {}
         /\ session' = session
         /\ pc'[w] = "idle"
         /\ ~grant'[w].ran]_vars

\* a redirect while an allowlisted identity is cached
C12_Witness ==
  \E w \in Workers :
    /\ ~call[w].authorized
    /\ call[w].decision = "REDIRECT_TO_LOGIN"
    /\ Cached(session)
    /\ session.domain \in ALLOWED_GSUITE_DOMAINS

\* C13: a grant calls getIamPolicy at most once and setIamPolicy at most once,
\* in that order, and every finished call has a decision (REDIRECT_TO_LOGIN,
\* DENY, ALLOW) and every finished grant an outcome (ERROR, SUCCESS). A call
\* makes its one profile fetch or none: call[w].fetched.
C13_NoRetryAndTerminal ==
  \A w \in Workers :
    /\ grant[w].calls \in {<<>>, <<"getIamPolicy">>, <<"getIamPolicy", "setIamPolicy">>}
    /\ (pc[w] = "idle" /\ call[w] # NoCall) =>
         call[w].decision \in {"REDIRECT_TO_LOGIN", "DENY", "ALLOW"}
    /\ (pc[w] = "idle" /\ grant[w].ran) => grant[w].outcome \in {"ERROR", "SUCCESS"}

RECURSIVE FirstAccountIndex(_, _)
\* the first entry of emails whose type is account, 0 when there is none
FirstAccountIndex(emails, i) ==
  IF i > Len(emails) THEN 0
  ELSE IF "type" \in DOMAIN emails[i] /\ emails[i].type = "account" THEN i
  ELSE FirstAccountIndex(emails, i + 1)

\* C14: after a profile fetch answered 200 with domain and emails, the account
\* held is the value of the first emails entry of type account; when no entry
\* has that type the call is denied with the missing-account message and no
\* account is set.
C14_FirstAccountEmail ==
  [][\A w \in Workers, resp \in Profiles :
       ( /\ EnforceWith(w, TRUE, resp)
         /\ NeedsProfile(session)
         /\ resp.status_code = 200
         /\ "domain" \in DOMAIN resp.body
         /\ "emails" \in DOMAIN resp.body ) =>
         LET i == FirstAccountIndex(resp.body.emails, 1)
         IN  IF i > 0
             THEN /\ "value" \in DOMAIN resp.body.emails[i]
                  /\ session'.account = resp.body.emails[i].value
             ELSE /\ call'[w].decision = "DENY"
                  /\ call'[w].flashed = <<MsgNoAccount>>
                  /\ session'.account = Absent]_vars

\* C15: with grants served one at a time, a policy changes only when a grant
\* succeeds, and then by exactly that grant's binding appended to what the
\* project held; grants that end otherwise leave every policy as it was.
C15_OneBindingPerSuccess ==
  [][\A p \in Projects :
       LET done == {w \in Workers : /\ pc[w] = "fetched"
                                    /\ pc'[w] = "idle"
                                    /\ grant'[w].outcome = "SUCCESS"
                                    /\ grant[w].project = p}
       IN  IF done = {} THEN remote'[p] = remote[p]
           ELSE \E w \in done :
                  /\ Len(remote'[p].bindings) = Len(remote[p].bindings) + 1
                  /\ SubSeq(remote'[p].bindings, 1, Len(remote[p].bindings))
                       = remote[p].bindings
                  /\ Last(remote'[p].bindings)
                       = Last(grant'[w].submitted[1].policy.bindings)
                  /\ Last(remote'[p].bindings).role = grant[w].form.access]_vars

\* two grants succeeded in turn and a third request ended in an error: the
\* policy holds the owner's binding and the two new ones
C15_Witness ==
  /\ Len(remote[<<"p">>].bindings) = 3
  /\ remote[<<"p">>].bindings[1] = OwnerBinding
  /\ remote[<<"p">>].bindings[2] # remote[<<"p">>].bindings[3]
  /\ \E w \in Workers : grant[w].outcome = "ERROR"

\* C16: whenever the wrapped route runs the session holds both keys, the
\* identity held is the domain and first account email of one profile, and the
\* title of a binding sent names the account held.
C16_AccountDefined ==
  \A w \in Workers :
    (call[w].decision = "ALLOW" \/ pc[w] # "idle" \/ grant[w].ran) =>
      /\ Cached(session)
      /\ \E resp \in Profiles :
           /\ resp.status_code = 200
           /\ "domain" \in DOMAIN resp.body /\ "emails" \in DOMAIN resp.body
           /\ resp.body.domain = session.domain
           /\ FirstAccountIndex(resp.body.emails, 1) > 0
           /\ resp.body.emails[FirstAccountIndex(resp.body.emails, 1)].value
                = session.account
      /\ grant[w].submitted # <<>> =>
           Last(grant[w].submitted[1].policy.bindings).condition.title
             = <<"granted by ", session.account>>

\* a grant that succeeded in the call that fetched the profile
C16_Witness ==
  \E w \in Workers :
    /\ call[w].fetched
    /\ call[w].decision = "ALLOW"
    /\ grant[w].outcome = "SUCCESS"
    /\ session.account = "a@acme.com"

\* C17: the session holds account only if it holds domain; a session holding
\* domain alone makes the next authorized call fetch the profile again.
C17_AccountImpliesDomain ==
  /\ [](session.account # Absent => session.domain # Absent)
  /\ [][\A w \in Workers :
          ( /\ session.domain # Absent
            /\ session.account = Absent
            /\ call'[w].authorized
            /\ Enforce(w) ) => call'[w].fetched]_vars

\* domain held without account, after a second call fetched the profile again
C17_Witness ==
  /\ session.domain # Absent
  /\ session.account = Absent
  /\ writers = 2

\* C18: whenever the clock was read and the fetched policy has bindings, a
\* binding is sent whose expiry is the clock value plus the period, in UTC.
C18_ExpiryIsClockPlusPeriod ==
  \A w \in Workers :
    LET g == grant[w]
    IN  (g.clock # <<>> /\ "bindings" \in DOMAIN g.cur) =>
          /\ g.submitted # <<>>
          /\ LET e == Last(g.submitted[1].policy.bindings).condition.expression[2]
             IN  /\ e[1] * 1440 + e[3] * 60 + e[5] = g.clock[1] + g.form.period
                 /\ e[3] \in 0..23 /\ e[5] \in 0..59
                 /\ e[6] = "+00:00"

====
